---------------------------- MODULE Spec2Model ----------------------------
(***************************************************************************)
(* Model of the repository's two stateful programs:                        *)
(*   - 115_Motion_detection/MotionDetection.py : the frame loop            *)
(*     (read, background subtraction, morphological opening, contour      *)
(*     extraction, rectangle drawing, imshow, waitKey)                     *)
(*   - 040_Tkinter_DirBrowser/dirbrowser_commented.py : the Treeview       *)
(*     event handlers (on_tree_open, on_tree_double_click)                 *)
(* Three specifications share the module: Spec (the frame loop), SpecMask  *)
(* (the two pure image operations of the loop applied to generated masks)  *)
(* and SpecDir (the directory browser).                                    *)
(***************************************************************************)
EXTENDS Integers, Sequences, FiniteSets, TLC

VARIABLES
    \* ---- frame loop (MotionDetection.py) ----
    pc,            \* position in the script
    streamLen,     \* number of frames the video source holds
    endsWithError, \* TRUE: the read after the last frame fails on an I/O error
    nread,         \* frames read so far with ret = True
    frame,         \* the script's variable `frame`
    frameRead,     \* copy of the frame as video.read() returned it
    firstFrame,    \* copy of the first frame read
    allSame,       \* every frame read so far equals firstFrame
    bgModel,       \* state of background_subtractor
    bgBefore,      \* bgModel just before the latest apply() call
    fg_mask,       \* the script's variable `fg_mask`
    rawMask,       \* copy of the mask as apply() returned it
    contours,      \* the script's variable `contours`
    sinkFrame,     \* what cv2.imshow last received
    stages,        \* stages completed for the current frame, in order
    shown,         \* number of imshow calls
    polls,         \* number of waitKey calls
    pendingKey,    \* key press waiting in the GUI event queue (-1: none)
    qPressedAt,    \* when the pending key was pressed: mid_frame | between_frames
    observedFrom,  \* qPressedAt of the key the last waitKey returned
    lastKey,       \* what the last waitKey returned
    exitBreak,     \* how the loop was left
    \* ---- generated masks (SpecMask) ----
    mw, mh,        \* mask dimensions
    blobA, blobB,  \* two grown blobs
    scribble,      \* freely painted pixels
    phase,         \* "build" | "opened" | "extracted"
    opened,        \* result of the opening
    regions,       \* result of the region extraction
    \* ---- directory browser (dirbrowser_commented.py) ----
    cwd,           \* process working directory
    tree,          \* Treeview items
    openItems,     \* iids whose -open flag is set
    focus,         \* tree.focus()
    lastEvent      \* the latest handler invocation

pipeVars == <<pc, streamLen, endsWithError, nread, frame, frameRead, firstFrame,
              allSame, bgModel, bgBefore, fg_mask, rawMask, contours, sinkFrame,
              stages, shown, polls, pendingKey, qPressedAt, observedFrom,
              lastKey, exitBreak>>
maskVars == <<mw, mh, blobA, blobB, scribble, phase, opened, regions>>
dirVars  == <<cwd, tree, openItems, focus, lastEvent>>
vars     == <<pipeVars, maskVars, dirVars>>

-----------------------------------------------------------------------------
(* Bounds *)
MaxFrames == 3
FrameW    == 3
FrameH    == 3
MaxMaskW  == 3
MaxMaskH  == 3

-----------------------------------------------------------------------------
(* Images: [w, h, px] with px a function on the pixel coordinates <<x, y>> *)

Coords(w, h) == (0 .. w - 1) \X (0 .. h - 1)

Image(w, h, px) == [w |-> w, h |-> h, px |-> px]

MaskOf(w, h, S) == Image(w, h, [p \in Coords(w, h) |-> IF p \in S THEN 255 ELSE 0])

Foreground(img) == {p \in Coords(img.w, img.h) : img.px[p] # 0}

MinOf(S) == CHOOSE m \in S : \A n \in S : m <= n
MaxOf(S) == CHOOSE m \in S : \A n \in S : m >= n

Abs(n) == IF n < 0 THEN -n ELSE n

-----------------------------------------------------------------------------
(* cv2.getStructuringElement(cv2.MORPH_ELLIPSE, (3, 3))                    *)

KSize == 3

\* Half width of the ellipse on the row dy away from the centre:
\* round(c * sqrt(1 - dy^2 / r^2)), r = c = KSize \div 2.
EllipseHalfWidth(dy) ==
    LET r == KSize \div 2
        c == KSize \div 2
        t == 4 * c * c * (r * r - dy * dy)
    IN  CHOOSE d \in 0 .. c :
            /\ (d = 0 \/ (2 * d - 1) * (2 * d - 1) * r * r <= t)
            /\ t < (2 * d + 1) * (2 * d + 1) * r * r

\* The element as the set of offsets <<dx, dy>> from its anchor (the centre).
StructuringElement ==
    LET r == KSize \div 2
    IN  UNION {{<<dx, dy>> : dx \in -EllipseHalfWidth(dy) .. EllipseHalfWidth(dy)} :
                  dy \in -r .. r}

-----------------------------------------------------------------------------
(* cv2.morphologyEx(fg_mask, cv2.MORPH_OPEN, element)                      *)
(* Default border: BORDER_CONSTANT with morphologyDefaultBorderValue, i.e. *)
(* pixels outside the image never lower an erosion nor raise a dilation.   *)

Erode(img, kernel) ==
    Image(img.w, img.h,
          [p \in Coords(img.w, img.h) |->
              MinOf({img.px[<<p[1] + o[1], p[2] + o[2]>>] :
                       o \in {o \in kernel : <<p[1] + o[1], p[2] + o[2]>>
                                                \in Coords(img.w, img.h)}})])

Dilate(img, kernel) ==
    Image(img.w, img.h,
          [p \in Coords(img.w, img.h) |->
              MaxOf({img.px[<<p[1] - o[1], p[2] - o[2]>>] :
                       o \in {o \in kernel : <<p[1] - o[1], p[2] - o[2]>>
                                                \in Coords(img.w, img.h)}})])

MorphologyExOpen(img, kernel) == Dilate(Erode(img, kernel), kernel)

-----------------------------------------------------------------------------
(* cv2.findContours(fg_mask, cv2.RETR_EXTERNAL, cv2.CHAIN_APPROX_SIMPLE)   *)
(* Non-zero pixels are foreground, 8-connected; the background is          *)
(* 4-connected.  RETR_EXTERNAL keeps the outer border of the components    *)
(* that touch the outer background (the background connected to the image  *)
(* frame); a component lying in a hole of another one is not returned.     *)

Adj8(p, q) == p # q /\ Abs(p[1] - q[1]) <= 1 /\ Abs(p[2] - q[2]) <= 1
Adj4(p, q) == Abs(p[1] - q[1]) + Abs(p[2] - q[2]) = 1

RECURSIVE Flood8(_, _)
Flood8(S, C) ==
    LET N == {p \in S \ C : \E q \in C : Adj8(p, q)}
    IN  IF N = {} THEN C ELSE Flood8(S, C \cup N)

RECURSIVE Flood4(_, _)
Flood4(S, C) ==
    LET N == {p \in S \ C : \E q \in C : Adj4(p, q)}
    IN  IF N = {} THEN C ELSE Flood4(S, C \cup N)

\* Raster scan: top row first, left to right.
FirstInScan(S) ==
    CHOOSE p \in S : \A q \in S : p[2] < q[2] \/ (p[2] = q[2] /\ p[1] <= q[1])

RECURSIVE Components(_)
Components(S) ==
    IF S = {} THEN <<>>
    ELSE LET c == Flood8(S, {FirstInScan(S)})
         IN  <<c>> \o Components(S \ c)

\* Background reachable from outside the image (one padding ring around it).
OuterBackground(img) ==
    LET pad  == (-1 .. img.w) \X (-1 .. img.h)
        bg   == pad \ Foreground(img)
        ring == {p \in pad : p[1] = -1 \/ p[1] = img.w \/ p[2] = -1 \/ p[2] = img.h}
    IN  Flood4(bg, ring)

\* Outer border points of component c: its pixels 4-adjacent to the outer
\* background ob.  Empty exactly when c lies in a hole.
OuterBorder(ob, c) == {p \in c : \E q \in ob : Adj4(p, q)}

\* The outer borders of the components cs, in order, nested ones left out.
RECURSIVE ExternalBorders(_, _)
ExternalBorders(cs, ob) ==
    IF cs = <<>> THEN <<>>
    ELSE LET b == OuterBorder(ob, Head(cs))
         IN  (IF b = {} THEN <<>> ELSE <<b>>) \o ExternalBorders(Tail(cs), ob)

FindContoursExternal(img) ==
    ExternalBorders(Components(Foreground(img)), OuterBackground(img))

\* cv2.boundingRect(contour) -> <<x, y, w, h>>
BoundingRect(contour) ==
    LET xs == {p[1] : p \in contour}
        ys == {p[2] : p \in contour}
    IN  <<MinOf(xs), MinOf(ys), MaxOf(xs) - MinOf(xs) + 1, MaxOf(ys) - MinOf(ys) + 1>>


-----------------------------------------------------------------------------
(* SpecMask: the opening (line 22) and the region extraction (lines 25-28)  *)
(* applied to generated masks.  A mask is painted pixel by pixel: either    *)
(* as two blobs, each grown through 8-neighbours and kept out of the        *)
(* other's 8-neighbourhood, or freely.                                      *)

CurrentMask == MaskOf(mw, mh, blobA \cup blobB \cup scribble)

\* The image frame itself as a blob: a closed ring with a hole inside.
FrameRing(w, h) ==
    {p \in Coords(w, h) : p[1] = 0 \/ p[1] = w - 1 \/ p[2] = 0 \/ p[2] = h - 1}

Small == mw <= MaxMaskW /\ mh <= MaxMaskH

MaskInit ==
    /\ \/ /\ mw \in 1 .. MaxMaskW
          /\ mh \in 1 .. MaxMaskH
          /\ blobA = {}
       \/ /\ mw = MaxMaskW + 2
          /\ mh = MaxMaskH + 2
          /\ blobA = FrameRing(mw, mh)
    /\ blobB = {}
    /\ scribble = {}
    /\ phase = "build"
    /\ opened = MaskOf(1, 1, {})
    /\ regions = <<>>

GrowA(p) ==
    /\ phase = "build" /\ Small
    /\ scribble = {} /\ blobB = {}
    /\ p \notin blobA
    /\ blobA = {} \/ \E q \in blobA : Adj8(p, q)
    /\ blobA' = blobA \cup {p}
    /\ UNCHANGED <<mw, mh, blobB, scribble, phase, opened, regions>>
    /\ UNCHANGED <<pipeVars, dirVars>>

\* The second blob lies after the first pixel of the first one in raster
\* order, so that every pair of blobs is built once.
GrowB(p) ==
    /\ phase = "build"
    /\ scribble = {} /\ blobA # {}
    /\ p \notin blobA \cup blobB
    /\ LET a == FirstInScan(blobA)
       IN  a[2] < p[2] \/ (a[2] = p[2] /\ a[1] < p[1])
    /\ \A q \in blobA : ~Adj8(p, q)
    /\ blobB = {} \/ \E q \in blobB : Adj8(p, q)
    /\ blobB' = blobB \cup {p}
    /\ UNCHANGED <<mw, mh, blobA, scribble, phase, opened, regions>>
    /\ UNCHANGED <<pipeVars, dirVars>>

\* Pixels are painted in raster order, so that every mask is painted once.
Scribble(p) ==
    /\ phase = "build" /\ Small
    /\ blobA = {} /\ blobB = {}
    /\ \A q \in scribble : q[2] < p[2] \/ (q[2] = p[2] /\ q[1] < p[1])
    /\ scribble' = scribble \cup {p}
    /\ UNCHANGED <<mw, mh, blobA, blobB, phase, opened, regions>>
    /\ UNCHANGED <<pipeVars, dirVars>>

\* fg_mask = cv2.morphologyEx(fg_mask, cv2.MORPH_OPEN, ...)
NoiseFilterMutantClose(m) ==
    LET kernel == StructuringElement IN Erode(Dilate(m, kernel), kernel)
NoiseFilter(m) ==
    LET kernel == StructuringElement IN MorphologyExOpen(m, kernel)

\* contours = cv2.findContours(...); x, y, w, h = cv2.boundingRect(contour)
RECURSIVE RegionsOf(_)
RegionsOf(cs) ==
    IF cs = <<>> THEN <<>>
    ELSE <<[rect |-> BoundingRect(Head(cs)), contour |-> Head(cs)]>>
             \o RegionsOf(Tail(cs))

ExtractMutantFourConnected(m) ==
    LET RECURSIVE Comp4(_)
        Comp4(S) == IF S = {} THEN <<>>
                    ELSE LET c == Flood4(S, {FirstInScan(S)})
                         IN  <<c>> \o Comp4(S \ c)
    IN  RegionsOf(ExternalBorders(Comp4(Foreground(m)), OuterBackground(m)))
RegionExtract(m) == RegionsOf(FindContoursExternal(m))

ApplyOpen ==
    /\ phase = "build"
    /\ opened' = NoiseFilter(CurrentMask)
    /\ phase' = "opened"
    /\ UNCHANGED <<mw, mh, blobA, blobB, scribble, regions>>
    /\ UNCHANGED <<pipeVars, dirVars>>

ApplyExtract ==
    /\ phase = "build"
    /\ regions' = RegionExtract(CurrentMask)
    /\ phase' = "extracted"
    /\ UNCHANGED <<mw, mh, blobA, blobB, scribble, opened>>
    /\ UNCHANGED <<pipeVars, dirVars>>

MaskNext ==
    \/ \E p \in Coords(mw, mh) : GrowA(p)
    \/ \E p \in Coords(mw, mh) : GrowB(p)
    \/ \E p \in Coords(mw, mh) : Scribble(p)
    \/ ApplyOpen
    \/ ApplyExtract


-----------------------------------------------------------------------------
(* background_subtractor = cv2.createBackgroundSubtractorMOG2()            *)
(* fg_mask = background_subtractor.apply(frame)                            *)
(* Per pixel a list of at most KComponents components [mean, m], heaviest  *)
(* first.  m is an unnormalised weight: the weight is m / (sum of the m),  *)
(* so the weights of a pixel always sum to 1.  Grey levels are far apart:  *)
(* a sample matches a component exactly when it equals its mean.           *)

KComponents  == 3
AlphaNum     == 1      \* learning rate AlphaNum / AlphaDen
AlphaDen     == 2
BgFractionNum == 7     \* background weight fraction 0.7
BgFractionDen == 10

RECURSIVE SumM(_)
SumM(cs) == IF cs = <<>> THEN 0 ELSE Head(cs).m + SumM(Tail(cs))

RECURSIVE InsertDesc(_, _)
InsertDesc(c, cs) ==
    IF cs = <<>> THEN <<c>>
    ELSE IF c.m > Head(cs).m THEN <<c>> \o cs
    ELSE <<Head(cs)>> \o InsertDesc(c, Tail(cs))

RECURSIVE SortDesc(_)
SortDesc(cs) ==
    IF cs = <<>> THEN <<>>
    ELSE InsertDesc(cs[Len(cs)], SortDesc(SubSeq(cs, 1, Len(cs) - 1)))

\* Index of the first (heaviest) component the sample matches, 0 if none.
MatchIndex(cs, x) ==
    IF \E i \in 1 .. Len(cs) : cs[i].mean = x
    THEN MinOf({i \in 1 .. Len(cs) : cs[i].mean = x})
    ELSE 0

\* Number of leading components that make up the background: the fewest
\* whose weights accumulate to the background fraction.
BackgroundCount(cs) ==
    IF cs = <<>> THEN 0
    ELSE MinOf({b \in 1 .. Len(cs) :
                  BgFractionDen * SumM(SubSeq(cs, 1, b)) >= BgFractionNum * SumM(cs)})

PixelIsBackground(cs, x) ==
    /\ MatchIndex(cs, x) # 0
    /\ MatchIndex(cs, x) <= BackgroundCount(cs)

PixelUpdate(cs, x) ==
    LET k == MatchIndex(cs, x)
        M == SumM(cs)
    IN  IF k # 0
        THEN \* w' = (1 - a) w + a [matched]
             SortDesc([i \in 1 .. Len(cs) |->
                         [mean |-> cs[i].mean,
                          m |-> (AlphaDen - AlphaNum) * cs[i].m
                                  + (IF i = k THEN AlphaNum * M ELSE 0)]])
        ELSE IF cs = <<>>
        THEN <<[mean |-> x, m |-> 1]>>
        ELSE \* the new component replaces the least probable one when the
             \* list is full, and enters with weight a
             LET kept == IF Len(cs) < KComponents THEN cs
                         ELSE SubSeq(cs, 1, Len(cs) - 1)
                 S    == SumM(kept)
             IN  SortDesc([i \in 1 .. Len(kept) |->
                             [mean |-> kept[i].mean,
                              m |-> (AlphaDen - AlphaNum) * kept[i].m]]
                          \o <<[mean |-> x, m |-> AlphaNum * S]>>)

FreshModel == [p \in Coords(FrameW, FrameH) |-> <<>>]

BgMaskMutantBootstrapBackground(model, f) ==
    Image(f.w, f.h, [p \in Coords(f.w, f.h) |-> IF model[p] = <<>> \/ PixelIsBackground(model[p], f.px[p])
                               THEN 0 ELSE 255])
BgMask(model, f) ==
    Image(f.w, f.h, [p \in Coords(f.w, f.h) |-> IF PixelIsBackground(model[p], f.px[p]) THEN 0 ELSE 255])

BgUpdate(model, f) == [p \in Coords(f.w, f.h) |-> PixelUpdate(model[p], f.px[p])]

-----------------------------------------------------------------------------
(* Frames produced by video.read(): grey-level grids.                      *)

SceneUniform(l) == Image(FrameW, FrameH, [p \in Coords(FrameW, FrameH) |-> l])
SceneBlock == Image(FrameW, FrameH, [p \in Coords(FrameW, FrameH) |-> IF p[1] <= 1 /\ p[2] <= 1 THEN "bright" ELSE "dark"])
SceneDot   == Image(FrameW, FrameH, [p \in Coords(FrameW, FrameH) |-> IF p = <<1, 1>> THEN "bright" ELSE "dark"])
Scenes == {SceneUniform("dark"), SceneUniform("bright"), SceneBlock, SceneDot}

NoImage == Image(0, 0, [p \in Coords(0, 0) |-> 0])

-----------------------------------------------------------------------------
(* cv2.rectangle(frame, (x, y), (x + w, y + h), (0, 255, 0), 2)            *)

Thickness == 2

\* Pixels of the outline with corners <<x, y>> and <<x + w, y + h>>, widened
\* by half the thickness on each side.
RectanglePixels(r) ==
    LET x0 == r[1]
        y0 == r[2]
        x1 == r[1] + r[3]
        y1 == r[2] + r[4]
        t  == Thickness \div 2
    IN  {p \in (x0 - t .. x1 + t) \X (y0 - t .. y1 + t) :
            \/ Abs(p[1] - x0) <= t \/ Abs(p[1] - x1) <= t
            \/ Abs(p[2] - y0) <= t \/ Abs(p[2] - y1) <= t}

\* Draws in place: the result is the same frame object with pixels changed.
Rectangle(f, r) ==
    Image(f.w, f.h, [p \in Coords(f.w, f.h) |-> IF p \in RectanglePixels(r) THEN "green" ELSE f.px[p]])

\* for contour in contours: ... cv2.rectangle(frame, ...)
DrawMutantOnCopy(f, cs) == f
RECURSIVE DrawAll(_, _)
DrawAll(f, cs) ==
    IF cs = <<>> THEN f
    ELSE DrawAll(Rectangle(f, BoundingRect(Head(cs))), Tail(cs))

-----------------------------------------------------------------------------
(* cv2.waitKey(30) & 0xFF == ord('q')                                      *)

OrdQ == 113
\* Codes waitKey can return: 'q', 'a', and 'q' with a modifier flag above
\* the low byte.
Keys == {113, 97, 1048689}

KeyByte(k) == k % 256


-----------------------------------------------------------------------------
(* The frame loop of MotionDetection.py                                    *)

LoopPcs  == {"read", "apply", "morph", "contours", "rect", "imshow", "waitKey"}
MidFrame == {"apply", "morph", "contours", "rect", "imshow"}
StageOrder == <<"apply", "morph", "contours", "sink">>

RunState == IF pc \in LoopPcs THEN "Running" ELSE "Stopped"

MaskIdle ==
    /\ mw = 0 /\ mh = 0 /\ blobA = {} /\ blobB = {} /\ scribble = {}
    /\ phase = "off" /\ opened = MaskOf(1, 1, {}) /\ regions = <<>>

DirIdle ==
    /\ cwd = <<>> /\ tree = {} /\ openItems = {} /\ focus = <<>>
    /\ lastEvent = [kind |-> "none"]

\* Lines 5-10: the capture is opened and a fresh subtractor created.
PipeInit ==
    /\ pc = "read"
    /\ streamLen \in 0 .. MaxFrames
    /\ endsWithError \in BOOLEAN
    /\ nread = 0
    /\ frame = NoImage /\ frameRead = NoImage /\ firstFrame = NoImage
    /\ allSame = TRUE
    /\ bgModel = FreshModel /\ bgBefore = FreshModel
    /\ fg_mask = NoImage /\ rawMask = NoImage
    /\ contours = <<>>
    /\ sinkFrame = NoImage
    /\ stages = <<>>
    /\ shown = 0 /\ polls = 0
    /\ pendingKey = -1 /\ qPressedAt = "none" /\ observedFrom = "none"
    /\ lastKey = -1
    /\ exitBreak = "none"

\* What `ret, frame = video.read()` gives the loop: ret is False both at the
\* end of the stream and when the device or file cannot supply a frame.
ReadOutcomeMutantRaises(hasFrame, ioError) ==
    IF hasFrame THEN "frame" ELSE IF ioError THEN "read_error" ELSE "not_ret"
ReadOutcome(hasFrame, ioError) ==
    IF hasFrame THEN "frame" ELSE "not_ret"

\* Lines 14-16
VideoRead ==
    /\ pc = "read"
    /\ LET out == ReadOutcome(nread < streamLen, endsWithError)
       IN  \/ /\ out = "frame"
              /\ \E f \in Scenes :
                    /\ frame' = f
                    /\ frameRead' = f
                    /\ firstFrame' = IF nread = 0 THEN f ELSE firstFrame
                    /\ allSame' = (allSame /\ (nread = 0 \/ f = firstFrame))
              /\ nread' = nread + 1
              /\ stages' = <<>>
              /\ pc' = "apply"
              /\ UNCHANGED exitBreak
           \/ /\ out # "frame"
              /\ pc' = IF out = "not_ret" THEN "release" ELSE "crashed"
              /\ exitBreak' = out
              /\ UNCHANGED <<frame, frameRead, firstFrame, allSame, nread, stages>>
    /\ UNCHANGED <<streamLen, endsWithError, bgModel, bgBefore, fg_mask, rawMask,
                   contours, sinkFrame, shown, polls, pendingKey, qPressedAt,
                   observedFrom, lastKey>>
    /\ UNCHANGED <<maskVars, dirVars>>

BackgroundApplyMutantSkipsFrame ==
    /\ pc = "apply"
    /\ bgBefore' = bgModel
    /\ \/ /\ fg_mask' = BgMask(bgModel, frame)
          /\ rawMask' = fg_mask'
          /\ bgModel' = BgUpdate(bgModel, frame)
          /\ stages' = Append(stages, "apply")
          /\ pc' = "morph"
          /\ UNCHANGED exitBreak
       \/ /\ bgModel' = bgModel
          /\ pc' = "read"
          /\ exitBreak' = "exception"
          /\ UNCHANGED <<fg_mask, rawMask, stages>>
    /\ UNCHANGED <<streamLen, endsWithError, nread, frame, frameRead, firstFrame,
                   allSame, contours, sinkFrame, shown, polls, pendingKey,
                   qPressedAt, observedFrom, lastKey>>
    /\ UNCHANGED <<maskVars, dirVars>>

\* Line 19.  apply() either returns the mask and leaves the model updated,
\* or raises: nothing in the loop catches the exception, the script ends.
\* What a failed call leaves in the model is the library's business: either
\* state is possible.
BackgroundApply ==
    /\ pc = "apply"
    /\ bgBefore' = bgModel
    /\ \/ /\ fg_mask' = BgMask(bgModel, frame)
          /\ rawMask' = fg_mask'
          /\ bgModel' = BgUpdate(bgModel, frame)
          /\ stages' = Append(stages, "apply")
          /\ pc' = "morph"
          /\ UNCHANGED exitBreak
       \/ /\ bgModel' \in {bgModel, BgUpdate(bgModel, frame)}
          /\ pc' = "crashed"
          /\ exitBreak' = "exception"
          /\ UNCHANGED <<fg_mask, rawMask, stages>>
    /\ UNCHANGED <<streamLen, endsWithError, nread, frame, frameRead, firstFrame,
                   allSame, contours, sinkFrame, shown, polls, pendingKey,
                   qPressedAt, observedFrom, lastKey>>
    /\ UNCHANGED <<maskVars, dirVars>>

MorphologyExMutantOmitted ==
    /\ pc = "morph"
    /\ pc' = "contours"
    /\ UNCHANGED <<streamLen, endsWithError, nread, frame, frameRead, firstFrame,
                   allSame, bgModel, bgBefore, fg_mask, rawMask, contours,
                   sinkFrame, stages, shown, polls, pendingKey, qPressedAt,
                   observedFrom, lastKey, exitBreak>>
    /\ UNCHANGED <<maskVars, dirVars>>

\* Line 22
MorphologyEx ==
    /\ pc = "morph"
    /\ fg_mask' = NoiseFilter(fg_mask)
    /\ stages' = Append(stages, "morph")
    /\ pc' = "contours"
    /\ UNCHANGED <<streamLen, endsWithError, nread, frame, frameRead, firstFrame,
                   allSame, bgModel, bgBefore, rawMask, contours, sinkFrame,
                   shown, polls, pendingKey, qPressedAt, observedFrom, lastKey, exitBreak>>
    /\ UNCHANGED <<maskVars, dirVars>>

\* Line 25
FindContours ==
    /\ pc = "contours"
    /\ contours' = FindContoursExternal(fg_mask)
    /\ stages' = Append(stages, "contours")
    /\ pc' = "rect"
    /\ UNCHANGED <<streamLen, endsWithError, nread, frame, frameRead, firstFrame,
                   allSame, bgModel, bgBefore, fg_mask, rawMask, sinkFrame,
                   shown, polls, pendingKey, qPressedAt, observedFrom, lastKey, exitBreak>>
    /\ UNCHANGED <<maskVars, dirVars>>

DrawRectanglesMutantPollsKey ==
    /\ pc = "rect"
    /\ frame' = DrawAll(frame, contours)
    /\ IF KeyByte(pendingKey) = OrdQ
       THEN /\ pc' = "release"
            /\ exitBreak' = "key_q"
            /\ lastKey' = pendingKey
            /\ observedFrom' = qPressedAt
            /\ pendingKey' = -1
            /\ qPressedAt' = "none"
       ELSE /\ pc' = "imshow"
            /\ UNCHANGED <<exitBreak, lastKey, observedFrom, pendingKey, qPressedAt>>
    /\ UNCHANGED <<streamLen, endsWithError, nread, frameRead, firstFrame,
                   allSame, bgModel, bgBefore, fg_mask, rawMask, contours,
                   sinkFrame, stages, shown, polls>>
    /\ UNCHANGED <<maskVars, dirVars>>

\* Lines 27-29
DrawRectangles ==
    /\ pc = "rect"
    /\ frame' = DrawAll(frame, contours)
    /\ pc' = "imshow"
    /\ UNCHANGED <<streamLen, endsWithError, nread, frameRead, firstFrame,
                   allSame, bgModel, bgBefore, fg_mask, rawMask, contours,
                   sinkFrame, stages, shown, polls, pendingKey, qPressedAt,
                   observedFrom, lastKey, exitBreak>>
    /\ UNCHANGED <<maskVars, dirVars>>

\* Line 32
ImShow ==
    /\ pc = "imshow"
    /\ sinkFrame' = frame
    /\ shown' = shown + 1
    /\ stages' = Append(stages, "sink")
    /\ pc' = "waitKey"
    /\ UNCHANGED <<streamLen, endsWithError, nread, frame, frameRead, firstFrame,
                   allSame, bgModel, bgBefore, fg_mask, rawMask, contours,
                   polls, pendingKey, qPressedAt, observedFrom, lastKey, exitBreak>>
    /\ UNCHANGED <<maskVars, dirVars>>

\* Line 35: the only place the key queue is read.  waitKey returns the
\* pending key code, or -1 when its 30 ms pass without one.
AfterKeyMutantAnyKey(k) == IF k # -1 THEN "release" ELSE "read"
AfterKey(k) == IF KeyByte(k) = OrdQ THEN "release" ELSE "read"

WaitKey ==
    /\ pc = "waitKey"
    /\ polls' = polls + 1
    /\ pendingKey' = -1
    /\ qPressedAt' = "none"
    /\ observedFrom' = qPressedAt
    /\ lastKey' = pendingKey
    /\ pc' = AfterKey(pendingKey)
    /\ exitBreak' = IF pc' = "release" THEN "key_q" ELSE exitBreak
    /\ UNCHANGED <<streamLen, endsWithError, nread, frame, frameRead, firstFrame,
                   allSame, bgModel, bgBefore, fg_mask, rawMask, contours,
                   sinkFrame, stages, shown>>
    /\ UNCHANGED <<maskVars, dirVars>>

\* Lines 39-40
Release ==
    /\ pc = "release"
    /\ pc' = "done"
    /\ UNCHANGED <<streamLen, endsWithError, nread, frame, frameRead, firstFrame,
                   allSame, bgModel, bgBefore, fg_mask, rawMask, contours,
                   sinkFrame, stages, shown, polls, pendingKey, qPressedAt,
                   observedFrom, lastKey, exitBreak>>
    /\ UNCHANGED <<maskVars, dirVars>>

\* The user presses a key while the 'Detected Objects' window exists (it is
\* created by the first imshow).  The press waits in the event queue until
\* waitKey runs; a later press takes the place of an earlier one.
KeyPress(k) ==
    /\ pc \in LoopPcs
    /\ shown >= 1
    /\ pendingKey' = k
    /\ qPressedAt' = IF pc \in MidFrame THEN "mid_frame" ELSE "between_frames"
    /\ UNCHANGED <<pc, streamLen, endsWithError, nread, frame, frameRead,
                   firstFrame, allSame, bgModel, bgBefore, fg_mask, rawMask,
                   contours, sinkFrame, stages, shown, polls, observedFrom, lastKey,
                   exitBreak>>
    /\ UNCHANGED <<maskVars, dirVars>>

Init == PipeInit /\ MaskIdle /\ DirIdle

Next ==
    \/ VideoRead
    \/ BackgroundApply
    \/ MorphologyEx
    \/ FindContours
    \/ DrawRectangles
    \/ ImShow
    \/ WaitKey
    \/ Release
    \/ \E k \in Keys : KeyPress(k)

Spec == Init /\ [][Next]_vars


-----------------------------------------------------------------------------
(* Properties of the frame loop (specification Spec)                       *)

IsPrefix(a, b) == Len(a) <= Len(b) /\ a = SubSeq(b, 1, Len(a))

AllForeground(img) == \A p \in Coords(img.w, img.h) : img.px[p] = 255

\* C1: when the source holds N frames and then signals a clean end of
\* stream, and no 'q' key was observed and no call raised, a run that has
\* left Running has read, filtered, extracted and shown all N frames: it
\* stops through the `not ret` break, only after frame N went through every
\* stage.
C1_StopsOnlyAfterLastFrame ==
    (/\ RunState = "Stopped"
     /\ ~endsWithError
     /\ KeyByte(lastKey) # OrdQ
     /\ exitBreak # "exception")
        => /\ exitBreak = "not_ret"
           /\ nread = streamLen
           /\ shown = streamLen
           /\ stages = IF streamLen = 0 THEN <<>> ELSE StageOrder

C1_Witness ==
    /\ pc = "done" /\ ~endsWithError /\ exitBreak = "not_ret"
    /\ streamLen = MaxFrames /\ shown = MaxFrames /\ stages = StageOrder

\* C2 (as stated): a read failure ends the run with an outcome different
\* from the one of a clean end of stream, i.e. the `not ret` outcome never
\* stems from a read failure.
C2_ReadErrorDistinct ==
    (RunState = "Stopped" /\ exitBreak = "not_ret") => ~endsWithError

\* C2 (amended): whenever the run stops because the source delivers no
\* further frame -- clean end of stream or read failure alike -- it stops
\* through the same `not ret` break and reaches the release code; nothing
\* in the final state tells the two causes apart.
C2_ReadErrorLooksLikeEndOfStream ==
    (RunState = "Stopped" /\ exitBreak \notin {"key_q", "exception"})
        => /\ exitBreak = "not_ret"
           /\ pc \in {"release", "done"}
           /\ nread = streamLen /\ shown = streamLen

C2_Witness ==
    pc = "done" /\ endsWithError /\ exitBreak = "not_ret" /\ streamLen >= 1

\* C3: the stages of a frame complete in the order apply, morph, contours,
\* sink; a frame is requested from the source only when every frame read
\* before went through all four; hence at most one frame (and one apply)
\* is in flight.
C3_StagesInOrder ==
    /\ IsPrefix(stages, StageOrder)
    /\ nread - shown \in {0, 1}
    /\ (pc = "read") => (shown = nread /\ (nread > 0 => stages = StageOrder))
    /\ (pc = "apply") => (stages = <<>> /\ nread = shown + 1)
    /\ (pc = "morph") => stages = <<"apply">>
    /\ (pc = "contours") => stages = <<"apply", "morph">>
    /\ (pc \in {"rect", "imshow"}) => stages = <<"apply", "morph", "contours">>
    /\ (pc = "waitKey") => stages = StageOrder

C3_Witness ==
    nread >= 2 /\ pc = "apply" /\ shown = nread - 1

\* C4: waitKey is called exactly once per completed iteration, after the
\* frame was shown.  A 'q' observed by it ends the run with every frame read
\* so far delivered and no further frame read; a 'q' pressed in the middle
\* of a frame leaves the run Running until that poll.
C4_CancellationPolledBetweenFrames ==
    /\ polls = shown - (IF pc = "waitKey" THEN 1 ELSE 0)
    /\ (exitBreak = "key_q") =>
          /\ KeyByte(lastKey) = OrdQ
          /\ pc \in {"release", "done"}
          /\ shown = nread /\ polls = nread /\ stages = StageOrder
    /\ (KeyByte(lastKey) = OrdQ) => (exitBreak = "key_q" /\ RunState = "Stopped")
    /\ (pc \in MidFrame) => RunState = "Running"

C4_Witness ==
    /\ exitBreak = "key_q" /\ observedFrom = "mid_frame"
    /\ shown = nread /\ nread >= 2

\* C5 (as stated): the frame the sink receives is the frame that was read.
C5_FrameUnchanged ==
    (pc = "waitKey") => sinkFrame = frameRead

\* C5 (amended): the frame the sink receives is the frame that was read
\* with the rectangle of every detected region drawn over it in green; it
\* is the frame as read when no region was detected, and it is not changed
\* after it was handed to the sink.
C5_SinkGetsFrameWithRectangles ==
    (pc = "waitKey") =>
        /\ sinkFrame.w = frameRead.w /\ sinkFrame.h = frameRead.h
        /\ \A p \in Coords(frameRead.w, frameRead.h) :
              sinkFrame.px[p] =
                 IF \E i \in 1 .. Len(contours) :
                       p \in RectanglePixels(BoundingRect(contours[i]))
                 THEN "green" ELSE frameRead.px[p]
        /\ (contours = <<>>) => sinkFrame = frameRead
        /\ frame = sinkFrame

C5_Witness ==
    pc = "waitKey" /\ contours # <<>> /\ sinkFrame # frameRead

\* C6 (as stated): after apply() failed, the background model is what it
\* was before the call and the run is still Running.
C6_ApplyFailureSkipsFrame ==
    (exitBreak = "exception") => (bgModel = bgBefore /\ RunState = "Running")

\* C6 (amended): a failing apply() ends the run: the exception is not
\* caught, the run is Stopped from then on, the frame it failed on went
\* through no stage and was never delivered, and no later frame is read.
C6_ApplyFailureEndsRun ==
    (exitBreak = "exception") =>
        /\ pc = "crashed"
        /\ RunState = "Stopped"
        /\ stages = <<>>
        /\ shown = nread - 1

C6_Witness ==
    exitBreak = "exception" /\ nread >= 2

\* C7: with a fresh model and identical frames, the mask of the first frame
\* is foreground everywhere, and from the second frame on the mask is empty
\* and no region is found.
C7_StaticStreamGoesQuiet ==
    allSame =>
        /\ (nread = 1 /\ Len(stages) >= 1) => AllForeground(rawMask)
        /\ (nread >= 2 /\ Len(stages) >= 1) => Foreground(rawMask) = {}
        /\ (nread >= 2 /\ Len(stages) >= 3) => contours = <<>>

C7_Witness ==
    allSame /\ nread = MaxFrames /\ nread >= 3 /\ stages = StageOrder /\ contours = <<>>


-----------------------------------------------------------------------------
(* Specification SpecMask and its properties                               *)

PipeIdle ==
    /\ pc = "off" /\ streamLen = 0 /\ endsWithError = FALSE /\ nread = 0
    /\ frame = NoImage /\ frameRead = NoImage /\ firstFrame = NoImage
    /\ allSame = TRUE /\ bgModel = FreshModel /\ bgBefore = FreshModel
    /\ fg_mask = NoImage /\ rawMask = NoImage /\ contours = <<>>
    /\ sinkFrame = NoImage /\ stages = <<>> /\ shown = 0 /\ polls = 0
    /\ pendingKey = -1 /\ qPressedAt = "none" /\ observedFrom = "none"
    /\ lastKey = -1 /\ exitBreak = "none"

InitMask == MaskInit /\ PipeIdle /\ DirIdle

SpecMask == InitMask /\ [][MaskNext]_vars

Area(img) == Cardinality(Foreground(img))

\* A foreground pixel none of whose 8 neighbours is foreground.
Isolated(img, p) ==
    /\ p \in Foreground(img)
    /\ \A q \in Foreground(img) : ~Adj8(p, q)

\* C8 (as stated): the opening keeps the dimensions, does not enlarge the
\* foreground area, and removes every isolated single foreground pixel.
C8_OpeningRemovesIsolatedPixels ==
    (phase = "opened") =>
        /\ opened.w = mw /\ opened.h = mh
        /\ DOMAIN opened.px = Coords(mw, mh)
        /\ Area(opened) <= Area(CurrentMask)
        /\ \A p \in Coords(mw, mh) : Isolated(CurrentMask, p) => opened.px[p] = 0

\* C8 (amended): the opening keeps the dimensions and does not enlarge the
\* foreground area; it removes every isolated single foreground pixel of a
\* mask that has more than one pixel (in a 1x1 mask the pixel has no
\* neighbour inside the image and survives).
C8_OpeningShrinks ==
    (phase = "opened") =>
        /\ opened.w = mw /\ opened.h = mh
        /\ DOMAIN opened.px = Coords(mw, mh)
        /\ Area(opened) <= Area(CurrentMask)
        /\ (mw * mh > 1) =>
              \A p \in Coords(mw, mh) : Isolated(CurrentMask, p) => opened.px[p] = 0
        /\ (mw * mh = 1) => opened = CurrentMask

C8_Witness ==
    /\ phase = "opened"
    /\ \E p \in Coords(mw, mh) : Isolated(CurrentMask, p)
    /\ Area(opened) > 0 /\ Area(opened) < Area(CurrentMask)

RectsDisjoint(r, s) ==
    \/ r[1] + r[3] <= s[1] \/ s[1] + s[3] <= r[1]
    \/ r[2] + r[4] <= s[2] \/ s[2] + s[4] <= r[2]

RectContains(r, S) ==
    \A p \in S : /\ r[1] <= p[1] /\ p[1] < r[1] + r[3]
                 /\ r[2] <= p[2] /\ p[2] < r[2] + r[4]

\* Blob X lies in a hole of blob Y: no pixel of X is reached from outside
\* the image by 4-connected steps that avoid Y.
InHoleOf(X, Y) ==
    LET pad  == (-1 .. mw) \X (-1 .. mh)
        ring == {p \in pad : p[1] = -1 \/ p[1] = mw \/ p[2] = -1 \/ p[2] = mh}
    IN  X \cap Flood4(pad \ Y, ring) = {}

TwoBlobs == blobA # {} /\ blobB # {} /\ scribble = {}

\* C9 (as stated): a mask of exactly two blobs that share no
\* 8-neighbourhood yields exactly two regions with disjoint rectangles.
C9_TwoDisjointRectangles ==
    (phase = "extracted" /\ TwoBlobs) =>
        /\ Len(regions) = 2
        /\ RectsDisjoint(regions[1].rect, regions[2].rect)

\* C9 (amended): a mask of exactly two blobs that share no 8-neighbourhood,
\* neither lying in a hole of the other, yields exactly two regions, one per
\* blob: their contours are disjoint, each lies on its own blob, and each
\* rectangle is the smallest one containing its blob (the two rectangles
\* may overlap).  A blob lying in a hole of the other yields no region.
C9_TwoRegionsOnePerBlob ==
    (phase = "extracted" /\ TwoBlobs) =>
        IF InHoleOf(blobA, blobB) \/ InHoleOf(blobB, blobA)
        THEN Len(regions) = 1
        ELSE /\ Len(regions) = 2
             /\ regions[1].contour \cap regions[2].contour = {}
             /\ \E f \in {<<blobA, blobB>>, <<blobB, blobA>>} :
                   \A i \in 1 .. 2 :
                      /\ regions[i].contour # {}
                      /\ regions[i].contour \subseteq f[i]
                      /\ RectContains(regions[i].rect, f[i])
                      /\ \E p \in f[i] : p[1] = regions[i].rect[1]
                      /\ \E p \in f[i] : p[2] = regions[i].rect[2]
                      /\ \E p \in f[i] : p[1] = regions[i].rect[1] + regions[i].rect[3] - 1
                      /\ \E p \in f[i] : p[2] = regions[i].rect[2] + regions[i].rect[4] - 1

C9_Witness ==
    /\ phase = "extracted" /\ TwoBlobs
    /\ ~InHoleOf(blobA, blobB) /\ ~InHoleOf(blobB, blobA)
    /\ Len(regions) = 2
    /\ ~RectsDisjoint(regions[1].rect, regions[2].rect)


-----------------------------------------------------------------------------
(* The directory browser, dirbrowser_commented.py                          *)
(* A path is the sequence of its components; an absolute path starts with  *)
(* "/", the empty sequence is the empty string.  The file system is fixed. *)

Dirs == {<<"/">>, <<"/", "a">>}
Files == {<<"/", "f">>, <<"/", "a", "g">>}

\* os.path.normpath on an absolute path
RECURSIVE NormInto(_, _)
NormInto(acc, rest) ==
    IF rest = <<>> THEN acc
    ELSE IF Head(rest) = "." THEN NormInto(acc, Tail(rest))
    ELSE IF Head(rest) = ".."
         THEN NormInto(IF Len(acc) > 1 THEN SubSeq(acc, 1, Len(acc) - 1) ELSE acc,
                       Tail(rest))
    ELSE NormInto(Append(acc, Head(rest)), Tail(rest))

\* os.path.abspath(path) with working directory wd
AbsPath(wd, path) ==
    IF path # <<>> /\ Head(path) = "/"
    THEN NormInto(<<"/">>, Tail(path))
    ELSE NormInto(wd, path)

IsDir(wd, path)  == path # <<>> /\ AbsPath(wd, path) \in Dirs
IsFile(wd, path) == path # <<>> /\ AbsPath(wd, path) \in Files

\* os.listdir(path)
ListDir(wd, path) ==
    LET d == AbsPath(wd, path)
    IN  {e[Len(e)] : e \in {e \in Dirs \cup Files :
                              Len(e) = Len(d) + 1 /\ SubSeq(e, 1, Len(d)) = d}}

\* Treeview items: [iid, parent, fullpath, type].  The parent of a top-level
\* item is '' (the empty sequence); a dummy child has empty values.
TopIid == <<"I">>

ItemOf(t, iid) == CHOOSE i \in t : i.iid = iid
HasItem(t, iid) == \E i \in t : i.iid = iid

\* tree.get_children(iid) with everything below them
Below(t, iid) ==
    {i \in t : Len(i.iid) > Len(iid) /\ SubSeq(i.iid, 1, Len(iid)) = iid}

\* populate_tree(tree, node, images), lines 77-142
PopulateTree(wd, t, iid) ==
    LET node == ItemOf(t, iid)
    IN  IF node.type # "directory" THEN t
        ELSE LET path    == node.fullpath
                 special == IF node.parent # <<>> THEN {} ELSE {".", ".."}
                 listing == special \cup ListDir(wd, path)
                 shown_  == {e \in listing :
                               IsDir(wd, Append(path, e)) \/ IsFile(wd, Append(path, e))}
                 entry(e) == [iid      |-> Append(iid, e),
                              parent   |-> iid,
                              fullpath |-> Append(path, e),
                              type     |-> IF IsDir(wd, Append(path, e))
                                           THEN "directory" ELSE "file"]
                 dummy(e) == [iid      |-> Append(Append(iid, e), "dummy"),
                              parent   |-> Append(iid, e),
                              fullpath |-> <<>>,
                              type     |-> ""]
             IN  (t \ Below(t, iid))
                   \cup {entry(e) : e \in shown_}
                   \cup {dummy(e) : e \in {e \in shown_ :
                                             /\ IsDir(wd, Append(path, e))
                                             /\ e \notin {".", ".."}}}

\* populate_roots(tree, images), lines 145-169
PopulateRootsMutantRelativePath(wd, t) ==
    PopulateTree(wd,
                 t \cup {[iid |-> TopIid, parent |-> <<>>,
                          fullpath |-> <<".">>, type |-> "directory"]},
                 TopIid)
PopulateRoots(wd, t) ==
    PopulateTree(wd,
                 t \cup {[iid |-> TopIid, parent |-> <<>>,
                          fullpath |-> AbsPath(wd, <<".">>), type |-> "directory"]},
                 TopIid)

TopLevel(t) == {i \in t : i.parent = <<>>}

\* An item is on screen when every item above it is open.
Visible(iid) ==
    \A n \in 1 .. Len(iid) - 1 :
        HasItem(tree, SubSeq(iid, 1, n)) => SubSeq(iid, 1, n) \in openItems

DirInit ==
    /\ cwd \in Dirs
    /\ tree = PopulateRoots(cwd, {})
    /\ openItems = {}
    /\ focus = <<>>
    /\ lastEvent = [kind |-> "none"]

\* The user opens a closed item: ttk gives it the focus, raises
\* <<TreeviewOpen>> (on_tree_open, lines 174-182) and sets its open flag.
\* The flag of a file, which never has children, is not recorded.
OnTreeOpen(iid) ==
    /\ HasItem(tree, iid) /\ Visible(iid) /\ iid \notin openItems
    /\ focus' = iid
    /\ tree' = PopulateTree(cwd, tree, focus')
    /\ openItems' = IF ItemOf(tree, iid).type = "directory"
                    THEN (openItems \ {i.iid : i \in Below(tree, iid)}) \cup {iid}
                    ELSE openItems
    /\ lastEvent' = [kind |-> "open"]
    /\ UNCHANGED cwd
    /\ UNCHANGED <<pipeVars, maskVars>>

\* The user closes an open item; the script binds nothing to it.
CloseItem(iid) ==
    /\ HasItem(tree, iid) /\ Visible(iid) /\ iid \in openItems
    /\ focus' = iid
    /\ openItems' = openItems \ {iid}
    /\ lastEvent' = [kind |-> "close"]
    /\ UNCHANGED <<cwd, tree>>
    /\ UNCHANGED <<pipeVars, maskVars>>

\* The user double-clicks an item: the first click gives it the focus, then
\* on_tree_double_click runs (lines 185-209).
OnTreeDoubleClick(iid) ==
    /\ HasItem(tree, iid) /\ Visible(iid)
    /\ lastEvent' = [kind |-> "dblclick"]
    /\ LET node == ItemOf(tree, iid)
           path == AbsPath(cwd, node.fullpath)
       IN  IF node.parent # <<>> /\ IsDir(cwd, path)
           THEN /\ cwd' = path
                /\ tree' = PopulateRoots(cwd', tree \ Below(tree, <<>>))
                /\ openItems' = {}
                /\ focus' = <<>>
           ELSE /\ focus' = iid
                /\ UNCHANGED <<cwd, tree, openItems>>
    /\ UNCHANGED <<pipeVars, maskVars>>

Iids == {i.iid : i \in tree}

DirNext ==
    \/ \E iid \in Iids : OnTreeOpen(iid)
    \/ \E iid \in Iids : CloseItem(iid)
    \/ \E iid \in Iids : OnTreeDoubleClick(iid)

InitDir == DirInit /\ PipeIdle /\ MaskIdle

SpecDir == InitDir /\ [][DirNext]_vars

=============================================================================
